---- MODULE Spec2Model ----
(***************************************************************************)
(* Model of the deployment harness: the Rollout Executor (deploy.sh in its *)
(* four revisions: the legacy script, the basic script, the compose-down   *)
(* variant and the strict variant), its inline Health Verifier, and the    *)
(* Image Publisher (build-and-push.sh).                                    *)
(*                                                                         *)
(* Every script runs under `set -euo pipefail`: a command that fails and   *)
(* is not guarded by `|| ...` or an `if` ends the script with that         *)
(* command's own non-zero status.  The outcome of every external command   *)
(* (docker, curl, git, sed) is a nondeterministic choice of the host.      *)
(***************************************************************************)
EXTENDS Naturals, Integers, Sequences, FiniteSets, TLC

VARIABLES
  variant,      \* which revision of deploy.sh runs
  args,         \* positional arguments of deploy.sh
  IMAGE,        \* $IMAGE
  pc,           \* position of deploy.sh
  exitcode,     \* exit status of deploy.sh, Running until it terminates
  override,     \* image pinned by $APP_DIR/docker-compose.override.yml
  containers,   \* host containers, by name
  todo,         \* names read by the current `while read container` loop
  cur,          \* $container of the current loop iteration
  n,            \* $n, failed health attempts
  status_code,  \* $status_code
  out,          \* what the script printed (usage, diagnostics)
  gets,         \* health GETs issued
  sleeps,       \* sleeps performed
  okAt,         \* index of the GET that returned 200, 0 if none
  hist,         \* bookkeeping of the run's effects on the host
  ppc,          \* position of build-and-push.sh
  pexit,        \* exit status of build-and-push.sh
  penv,         \* environment and host facts seen by build-and-push.sh
  TAG,          \* $TAG
  OVERRIDE_FILE,\* whether .docker-compose.image.override.yml exists, and its entries
  plog,         \* docker operations and error reports of build-and-push.sh, in order
  PUSHED_IMAGES,\* $PUSHED_IMAGES
  todoPush,     \* services still to be pushed by the push loop
  WF,           \* the workflow file: whether it exists, and its content
  other,        \* a second deploy.sh process on the same target, while it is not scheduled
  overlap       \* the two deploy.sh processes have run at the same time

dvars == <<variant, args, IMAGE, pc, exitcode, override, containers, todo, cur,
           n, status_code, out, gets, sleeps, okAt, hist>>
pvars == <<ppc, pexit, penv, TAG, OVERRIDE_FILE, plog, PUSHED_IMAGES, todoPush, WF>>
ovars == <<other, overlap>>
vars == <<dvars, pvars, ovars>>

(***************************************************************************)
(* Constants of the scripts                                                *)
(***************************************************************************)
HEALTH_RETRIES == 15

Running == -1
\* statuses a failing external command can return (generic error, docker daemon error)
FailCodes == {1, 125}

Variants == {"legacy", "basic", "down", "strict"}
NoFile == "nofile"
Unset == "unset"

\* the image references a rollout can be given
OldImage == "repo:old"
NewImage == "repo:new"

\* argument vectors deploy.sh is invoked with
ArgVectors == { <<>>, <<"">>, <<NewImage>>, <<OldImage>>, <<NewImage, "/srv/app">> }

(***************************************************************************)
(* Host containers                                                         *)
(***************************************************************************)
Names == {"app", "ext"}

Gone == [state |-> "absent", img |-> "none", line8080 |-> FALSE, hp |-> FALSE,
         anc |-> FALSE, kind |-> "none", prior |-> FALSE]

\* the compose service container of the prior version
PriorApp(a) == [state |-> "running", img |-> OldImage, line8080 |-> TRUE, hp |-> TRUE,
                anc |-> a, kind |-> "svc", prior |-> TRUE]

\* any other container on the host
OtherContainers ==
  { c \in [state : {"running", "exited"}, img : {OldImage, "other"},
           line8080 : BOOLEAN, hp : BOOLEAN, anc : BOOLEAN,
           kind : {"orphan", "foreign"}, prior : {TRUE}] :
      /\ c.hp => (c.line8080 /\ c.state = "running")
      /\ c.kind = "orphan" => c.img = "other" }

Hosts ==
  { h \in [Names -> {Gone} \cup {PriorApp(a) : a \in BOOLEAN} \cup OtherContainers] :
      /\ h["app"].kind \in {"none", "svc"}
      /\ h["ext"].kind \in {"none", "orphan", "foreign"}
      \* the host port 8080 is held by at most one running container
      /\ ~(h["app"].hp /\ h["ext"].hp) }

Present(c) == containers[c].state # "absent"
Serving(c) == containers[c].state = "running" /\ containers[c].hp

NoHist == [pulls |-> 0, pins |-> 0, stopped |-> {}, rmOk |-> {}, rmFailed |-> {},
           started |-> 0, downs |-> 0, okAfterStart |-> FALSE, pruned |-> "no",
           portMatched |-> {}, ancMatched |-> {}, hadPrior |-> FALSE,
           pull |-> "none", ups |-> 0, lastResp |-> "none"]

(***************************************************************************)
(* deploy.sh                                                               *)
(***************************************************************************)
DInit ==
  /\ variant \in Variants
  /\ args \in ArgVectors
  /\ IMAGE = Unset
  /\ pc = "validate"
  /\ exitcode = Running
  /\ containers \in Hosts
  /\ override = IF containers["app"].state = "absent" THEN NoFile ELSE OldImage
  /\ todo = {}
  /\ cur = "none"
  /\ n = 0
  /\ status_code = Unset
  /\ out = <<>>
  /\ gets = 0
  /\ sleeps = 0
  /\ okAt = 0
  /\ hist = [NoHist EXCEPT !.hadPrior = Serving("app")]

\* the script terminates with the given status
Exit(code) == pc' = "done" /\ exitcode' = code

\* `set -e`: an unguarded command failed with some non-zero status
Abort == \E code \in FailCodes : Exit(code)

\* IMAGE="${1:-}" (legacy: IMAGE="$1" after the argument count check)
ImageArg(v, a) ==
  IF Len(a) >= 1 THEN a[1] ELSE ""

\* a validation that lets an empty $IMAGE through
UsageError_CountOnly(v, a) ==
  IF v = "legacy" THEN Len(a) # 1 ELSE FALSE

\* the usage branch is taken
UsageError(v, a) ==
  IF v = "legacy" THEN Len(a) # 1 ELSE ImageArg(v, a) = ""

\* argument parsing and input validation
Validate ==
  /\ pc = "validate"
  /\ IF UsageError(variant, args)
       THEN /\ out' = Append(out, "usage")
            /\ Exit(1)
            /\ IMAGE' = IF variant = "legacy" THEN IMAGE ELSE ImageArg(variant, args)
       ELSE /\ IMAGE' = ImageArg(variant, args)
            /\ pc' = "pull"
            /\ UNCHANGED <<out, exitcode>>
  /\ UNCHANGED <<variant, args, override, containers, todo, cur, n, status_code,
                 gets, sleeps, okAt, hist, pvars, ovars>>

\* a pull whose failure is ignored, as with `docker pull "$IMAGE" || true`
AfterPull_Ignored(ok) == "pin"

\* where the script is after docker pull returned: set -e ends it on a failure
AfterPull(ok) == IF ok THEN "pin" ELSE "done"

\* docker pull "$IMAGE"
Pull ==
  /\ pc = "pull"
  /\ \E ok \in BOOLEAN, code \in FailCodes :
       /\ ok => IMAGE # ""      \* an empty reference is never pulled
       /\ hist' = [hist EXCEPT !.pulls = @ + 1,
                               !.pull = IF ok THEN "ok" ELSE "failed"]
       /\ pc' = AfterPull(ok)
       /\ exitcode' = IF pc' = "done" THEN code ELSE exitcode
  /\ UNCHANGED <<variant, args, IMAGE, override, containers, todo, cur, n, status_code,
                 out, gets, sleeps, okAt, pvars, ovars>>

\* the step that follows the pin in each revision
AfterPin(v) ==
  CASE v = "strict" -> "list_port"
    [] v = "down"   -> "down"
    [] OTHER        -> "up"

\* cat > "$APP_DIR/docker-compose.override.yml"; cd "$APP_DIR"
Pin ==
  /\ pc = "pin"
  /\ \/ /\ override' = IMAGE
        /\ hist' = [hist EXCEPT !.pins = @ + 1]
        /\ pc' = AfterPin(variant)
        /\ UNCHANGED exitcode
     \/ \* $APP_DIR does not exist: the redirection fails
        /\ Exit(1)
        /\ UNCHANGED <<override, hist>>
  /\ UNCHANGED <<variant, args, IMAGE, containers, todo, cur, n, status_code,
                 out, gets, sleeps, okAt, pvars, ovars>>

(***************************************************************************)
(* Supersession (compose-down and strict variants)                         *)
(***************************************************************************)
\* docker stop "$container" 2>/dev/null || true
DockerStop(cs, c, ok) ==
  IF ok /\ cs[c].state = "running"
    THEN [cs EXCEPT ![c].state = "exited"]
    ELSE cs

\* a removal that reports success and leaves the container in place
DockerRm_Keeps(cs, c, ok) == cs

\* docker rm -f "$container" 2>/dev/null || true
DockerRm(cs, c, ok) ==
  IF ok THEN [cs EXCEPT ![c] = Gone] ELSE cs

\* docker ps -a --format '{{.Names}}\t{{.Ports}}' | grep '8080' | awk '{print $1}'
PortListing(cs) == { c \in Names : cs[c].state # "absent" /\ cs[c].line8080 }

\* docker ps -a --filter "ancestor=..." --format '{{.Names}}'
AncestorListing(cs) == { c \in Names : cs[c].state # "absent" /\ cs[c].anc }

\* the listing pipeline of the port pass feeds the `while read` loop
ListPort ==
  /\ pc = "list_port"
  /\ \/ todo' = PortListing(containers)
     \/ todo' = {}    \* the listing fails; `|| true` swallows it
  /\ hist' = [hist EXCEPT !.portMatched = todo']
  /\ pc' = "port_loop"
  /\ UNCHANGED <<variant, args, IMAGE, exitcode, override, containers, cur, n,
                 status_code, out, gets, sleeps, okAt, pvars, ovars>>

\* the listing pipeline of the ancestry pass
ListAncestor ==
  /\ pc = "list_anc"
  /\ \/ todo' = AncestorListing(containers)
     \/ todo' = {}
  /\ hist' = [hist EXCEPT !.ancMatched = todo']
  /\ pc' = "anc_loop"
  /\ UNCHANGED <<variant, args, IMAGE, exitcode, override, containers, cur, n,
                 status_code, out, gets, sleeps, okAt, pvars, ovars>>

\* one iteration reads a name and stops the container (either pass)
LoopStop ==
  /\ pc \in {"port_loop", "anc_loop"}
  /\ \E c \in todo, ok \in BOOLEAN :
       /\ cur' = c
       /\ todo' = todo \ {c}
       /\ containers' = DockerStop(containers, c, ok)
       /\ hist' = [hist EXCEPT !.stopped =
                      IF containers'[c] # containers[c] THEN @ \cup {c} ELSE @]
  /\ pc' = IF pc = "port_loop" THEN "port_rm" ELSE "anc_rm"
  /\ UNCHANGED <<variant, args, IMAGE, exitcode, override, n, status_code, out,
                 gets, sleeps, okAt, pvars, ovars>>

\* a removal without its `|| true`: set -e ends the script when it fails
AfterRm_Fatal(p, ok) ==
  IF ~ok THEN "done" ELSE IF p = "port_rm" THEN "port_loop" ELSE "anc_loop"

\* where the loop is after docker rm -f ... || true returned
AfterRm(p, ok) == IF p = "port_rm" THEN "port_loop" ELSE "anc_loop"

\* ... and then force-removes it
LoopRm ==
  /\ pc \in {"port_rm", "anc_rm"}
  /\ \E ok \in BOOLEAN, code \in FailCodes :
       /\ containers' = DockerRm(containers, cur, ok)
       /\ hist' = IF ok THEN [hist EXCEPT !.rmOk = @ \cup {cur}]
                          ELSE [hist EXCEPT !.rmFailed = @ \cup {cur}]
       /\ pc' = AfterRm(pc, ok)
       /\ exitcode' = IF pc' = "done" THEN code ELSE exitcode
  /\ UNCHANGED <<variant, args, IMAGE, override, todo, cur, n, status_code,
                 out, gets, sleeps, okAt, pvars, ovars>>

\* the `while read` loop reaches the end of its input
LoopEnd ==
  /\ pc \in {"port_loop", "anc_loop"}
  /\ todo = {}
  /\ pc' = IF pc = "port_loop" THEN "list_anc" ELSE "down"
  /\ UNCHANGED <<variant, args, IMAGE, exitcode, override, containers, todo, cur, n,
                 status_code, out, gets, sleeps, okAt, hist, pvars, ovars>>

\* docker compose down: removes the containers of the services of the manifest
ComposeDown(cs, ok) ==
  IF ok THEN [c \in Names |-> IF cs[c].kind = "svc" THEN Gone ELSE cs[c]] ELSE cs

\* docker compose down || true
Down ==
  /\ pc = "down"
  /\ \E ok \in BOOLEAN :
       /\ containers' = ComposeDown(containers, ok)
       /\ hist' = [hist EXCEPT !.downs = @ + 1]
  /\ pc' = "up"
  /\ UNCHANGED <<variant, args, IMAGE, exitcode, override, todo, cur, n, status_code,
                 out, gets, sleeps, okAt, pvars, ovars>>

(***************************************************************************)
(* Start                                                                   *)
(***************************************************************************)
\* the service container that `up` creates from base manifest + override
NewApp(img, a) == [state |-> "running", img |-> img, line8080 |-> TRUE, hp |-> TRUE,
                   anc |-> a, kind |-> "svc", prior |-> FALSE]

\* a container outside the compose project holds the service's host port
PortBusy(cs) ==
  \E c \in Names : cs[c].kind = "foreign" /\ cs[c].state = "running" /\ cs[c].hp

\* docker compose up -d --remove-orphans: orphans are removed, the service
\* container is kept when it already runs the pinned image, started when it is
\* stopped, and (re)created otherwise
ComposeUp(cs, img, a) ==
  [c \in Names |->
     IF cs[c].kind = "orphan" THEN Gone
     ELSE IF c # "app" THEN cs[c]
     ELSE IF cs[c].state # "absent" /\ cs[c].img = img
            THEN [cs[c] EXCEPT !.state = "running"]
            ELSE NewApp(img, a)]

Up ==
  /\ pc = "up"
  /\ \/ /\ ~PortBusy(containers)
        /\ \E a \in BOOLEAN : containers' = ComposeUp(containers, override, a)
        /\ hist' = [hist EXCEPT !.started = @ + 1, !.ups = @ + 1]
        /\ n' = 0
        /\ pc' = "until"
        /\ UNCHANGED exitcode
     \/ /\ Abort
        /\ hist' = [hist EXCEPT !.ups = @ + 1]
        /\ UNCHANGED <<containers, n>>
  /\ UNCHANGED <<variant, args, IMAGE, override, todo, cur, status_code, out,
                 gets, sleeps, okAt, pvars, ovars>>

(***************************************************************************)
(* Health Verifier                                                         *)
(***************************************************************************)
\* what one GET can come to: an HTTP response with a status, or no response
Responses == {"200", "500", "transport-failure"}

\* $(curl -s -o /dev/null -w "%{http_code}" "$HEALTH_URL" || echo "000"):
\* curl writes the status it saw (000 when there was none); when curl fails,
\* the output of `echo "000"` follows it in the same substitution
CurlStatus(resp) ==
  IF resp = "transport-failure" THEN "000" \o "000" ELSE resp

\* an off-by-one loop test, -gt for -ge
BudgetExhausted_Gt(k) == k > HEALTH_RETRIES

\* [ $n -ge $HEALTH_RETRIES ]
BudgetExhausted(k) == k >= HEALTH_RETRIES

\* until [ $n -ge $HEALTH_RETRIES ]
Until ==
  /\ pc = "until"
  /\ pc' = IF BudgetExhausted(n) THEN "verify" ELSE "curl"
  /\ UNCHANGED <<variant, args, IMAGE, exitcode, override, containers, todo, cur, n,
                 status_code, out, gets, sleeps, okAt, hist, pvars, ovars>>

\* a comparison that only rejects the error status it was tested with
Healthy_Not500(s) == s # "500"

\* [ "$status_code" = "200" ]
Healthy(s) == s = "200"

\* a loop body without its `break`
AfterGet_NoBreak(s) == "sleep"

\* where the loop body goes after the GET: break, or count and sleep
AfterGet(s) == IF Healthy(s) THEN "verify" ELSE "sleep"

\* one attempt: GET, then break on 200, else count the attempt
HealthGet ==
  /\ pc = "curl"
  /\ \E resp \in Responses :
       /\ status_code' = CurlStatus(resp)
       /\ gets' = gets + 1
       /\ pc' = AfterGet(status_code')
       /\ IF Healthy(status_code')
            THEN /\ okAt' = IF okAt = 0 THEN gets' ELSE okAt
                 /\ hist' = [hist EXCEPT !.okAfterStart = hist.started > 0,
                                         !.lastResp = resp]
                 /\ n' = n
            ELSE /\ n' = n + 1
                 /\ hist' = [hist EXCEPT !.lastResp = resp]
                 /\ UNCHANGED okAt
  /\ UNCHANGED <<variant, args, IMAGE, exitcode, override, containers, todo, cur,
                 out, sleeps, pvars, ovars>>

\* sleep $HEALTH_WAIT
Sleep ==
  /\ pc = "sleep"
  /\ sleeps' = sleeps + 1
  /\ pc' = "until"
  /\ UNCHANGED <<variant, args, IMAGE, exitcode, override, containers, todo, cur, n,
                 status_code, out, gets, okAt, hist, pvars, ovars>>

\* if [ "$status_code" != "200" ]
Verify ==
  /\ pc = "verify"
  /\ IF ~Healthy(status_code)
       THEN /\ out' = Append(out, "health-check-failed")
            /\ pc' = "diag_ps"
       ELSE /\ pc' = "prune"
            /\ UNCHANGED out
  /\ UNCHANGED <<variant, args, IMAGE, exitcode, override, containers, todo, cur, n,
                 status_code, gets, sleeps, okAt, hist, pvars, ovars>>

\* docker ps --format "table ..."
DiagPs ==
  /\ pc = "diag_ps"
  /\ \/ /\ out' = Append(out, "status-table")
        /\ pc' = "diag_logs"
        /\ UNCHANGED exitcode
     \/ /\ Abort
        /\ UNCHANGED out
  /\ UNCHANGED <<variant, args, IMAGE, override, containers, todo, cur, n,
                 status_code, gets, sleeps, okAt, hist, pvars, ovars>>

\* a failure branch that lacks its `exit 1` and falls through to the cleanup
DiagLogs_FallsThrough ==
  /\ pc = "diag_logs"
  /\ \/ /\ out' = Append(out, "logs-tail-200")
        /\ pc' = "prune"
        /\ UNCHANGED exitcode
     \/ /\ Abort
        /\ UNCHANGED out
  /\ UNCHANGED <<variant, args, IMAGE, override, containers, todo, cur, n,
                 status_code, gets, sleeps, okAt, hist, pvars, ovars>>

\* docker compose logs --no-color --tail=200; exit 1
DiagLogs ==
  /\ pc = "diag_logs"
  /\ \/ /\ out' = Append(out, "logs-tail-200")
        /\ Exit(1)
     \/ /\ Abort
        /\ UNCHANGED out
  /\ UNCHANGED <<variant, args, IMAGE, override, containers, todo, cur, n,
                 status_code, gets, sleeps, okAt, hist, pvars, ovars>>

\* status of the script after `docker image prune -f` returned st
PruneExit(st) == st

\* docker image prune -f, then the closing banner
Prune ==
  /\ pc = "prune"
  /\ \E st \in {0} \cup FailCodes :
       /\ hist' = [hist EXCEPT !.pruned = IF st = 0 THEN "ok" ELSE "failed"]
       /\ Exit(PruneExit(st))
  /\ UNCHANGED <<variant, args, IMAGE, override, containers, todo, cur, n,
                 status_code, out, gets, sleeps, okAt, pvars, ovars>>

DNext ==
  \/ Validate \/ Pull \/ Pin
  \/ ListPort \/ ListAncestor \/ LoopStop \/ LoopRm \/ LoopEnd \/ Down
  \/ Up \/ Until \/ HealthGet \/ Sleep \/ Verify \/ DiagPs \/ DiagLogs \/ Prune

(***************************************************************************)
(* build-and-push.sh                                                       *)
(* Strings the script computes with are sequences of characters.           *)
(***************************************************************************)
MaxServices == 2

Upper == <<"A","B","C","D","E","F","G","H","I","J","K","L","M",
           "N","O","P","Q","R","S","T","U","V","W","X","Y","Z">>
Lower == <<"a","b","c","d","e","f","g","h","i","j","k","l","m",
           "n","o","p","q","r","s","t","u","v","w","x","y","z">>
Digits == {"0","1","2","3","4","5","6","7","8","9"}

\* tr '[:upper:]' '[:lower:]' on one character
ToLower(ch) ==
  IF \E i \in 1..26 : Upper[i] = ch
    THEN Lower[CHOOSE i \in 1..26 : Upper[i] = ch]
    ELSE ch

IsAlnum(ch) ==
  \/ \E i \in 1..26 : Upper[i] = ch \/ Lower[i] = ch
  \/ ch \in Digits

\* tr -c '[:alnum:]-' '-' on one character
TrComplement(ch) == IF IsAlnum(ch) \/ ch = "-" THEN ch ELSE "-"

\* S_SAFE=$(echo "$s" | tr '[:upper:]' '[:lower:]' | tr -c '[:alnum:]-' '-'):
\* echo ends the name with a newline, which the second tr translates too
S_SAFE(s) ==
  LET line == s \o <<"\n">>
  IN  [i \in 1..Len(line) |-> TrComplement(ToLower(line[i]))]

\* ${GITHUB_SHA:0:7}
Take7(s) == IF Len(s) <= 7 THEN s ELSE SubSeq(s, 1, 7)

DOCKERHUB_REPO == <<"u", "/", "r">>
\* git rev-parse --short HEAD
LocalShort == <<"9","f","8","e","7","d","6">>
\* date +%Y%m%d%H%M%S
Timestamp == <<"2","0","2","5","0","1","3","1","2","3","5","9","5","9">>
\* the literal __IMAGE_TAG__
Placeholder == <<"_","_","I","M","A","G","E","_","T","A","G","_","_">>

ServiceNames == { <<"w","e","b">>, <<"A","p","i">>, <<"d","b","_","1">>, <<"d","b",".","1">> }

\* the service lists `docker compose config --services` can print
Manifests ==
  { m \in UNION { [1..k -> ServiceNames] : k \in 0..MaxServices } :
      \A i, j \in 1..Len(m) : i # j => m[i] # m[j] }

\* values of $GITHUB_SHA (empty when unset)
Shas == { <<>>, <<"a","b","c">>, <<"c","0","f","f","e","e","1","2","3">> }

\* the workflow file, as the pieces the placeholder splits it into
WFContents ==
  { <<>>, << <<"o","n">> >>, << Placeholder >>,
    << <<"t",":">>, Placeholder, <<"x">>, Placeholder >> }

\* a file of the working directory: absent, or present with some content
Missing == [exists |-> FALSE, content |-> <<>>]
File(f) == [exists |-> TRUE, content |-> f]

\* command lines of build-and-push.sh, and the file the option names
ArgModes == {"none", "workflow-file", "workflow-file-novalue", "help", "unknown"}

\* composeOk: `docker compose config --services` succeeds; SERVICES: what it
\* prints (nothing when it fails)
PEnvs ==
  { e \in [argMode : ArgModes, repo : BOOLEAN, user : BOOLEAN, token : BOOLEAN,
           GITHUB_SHA : Shas, git : {"none", "unborn", "ok"},
           composeOk : BOOLEAN, SERVICES : Manifests] :
      ~e.composeOk => e.SERVICES = <<>> }

PInit ==
  /\ ppc = "args"
  /\ pexit = Running
  /\ penv \in PEnvs
  /\ TAG = <<>>
  /\ OVERRIDE_FILE = Missing
  /\ plog = <<>>
  /\ PUSHED_IMAGES = <<>>
  /\ todoPush = <<>>
  /\ WF \in IF penv.argMode = "workflow-file"
              THEN {Missing} \cup {File(f) : f \in WFContents} ELSE {Missing}

PExit(code) == ppc' = "done" /\ pexit' = code
PAbort == \E code \in FailCodes : PExit(code)

\* the while/case loop over the command line
ParseArgs ==
  /\ ppc = "args"
  /\ CASE penv.argMode = "help" -> PExit(0)
       [] penv.argMode \in {"unknown", "workflow-file-novalue"} -> PExit(1)
       [] OTHER -> ppc' = "env" /\ UNCHANGED pexit
  /\ UNCHANGED <<penv, TAG, OVERRIDE_FILE, plog, PUSHED_IMAGES, todoPush, WF, dvars, ovars>>

\* env validation
ConfigError(e) == ~e.repo \/ ~e.user \/ ~e.token

ValidateEnv ==
  /\ ppc = "env"
  /\ IF ConfigError(penv) THEN PExit(1) ELSE ppc' = "tag" /\ UNCHANGED pexit
  /\ UNCHANGED <<penv, TAG, OVERRIDE_FILE, plog, PUSHED_IMAGES, todoPush, WF, dvars, ovars>>

\* the source the tag comes from
TagSource(e) ==
  IF e.GITHUB_SHA # <<>> THEN "external"
  ELSE IF e.git # "none" THEN "local"
  ELSE "timestamp"

\* compute tag
ComputeTag ==
  /\ ppc = "tag"
  /\ CASE TagSource(penv) = "external" ->
            TAG' = Take7(penv.GITHUB_SHA) /\ ppc' = "services" /\ UNCHANGED pexit
       [] TagSource(penv) = "local" /\ penv.git = "ok" ->
            TAG' = LocalShort /\ ppc' = "services" /\ UNCHANGED pexit
       [] TagSource(penv) = "local" /\ penv.git = "unborn" ->
            \* git rev-parse --short HEAD fails inside the assignment
            PAbort /\ UNCHANGED TAG
       [] OTHER ->
            TAG' = Timestamp /\ ppc' = "services" /\ UNCHANGED pexit
  /\ UNCHANGED <<penv, OVERRIDE_FILE, plog, PUSHED_IMAGES, todoPush, WF, dvars, ovars>>

\* SERVICES=$(docker compose config --services), and the empty check
ListServices ==
  /\ ppc = "services"
  /\ IF ~penv.composeOk
       THEN PAbort    \* docker compose config fails inside the assignment
       ELSE IF penv.SERVICES = <<>>
              THEN PExit(1)
              ELSE ppc' = "override" /\ UNCHANGED pexit
  /\ UNCHANGED <<penv, TAG, OVERRIDE_FILE, plog, PUSHED_IMAGES, todoPush, WF, dvars, ovars>>

\* NUM_SERVICES=$(echo "$SERVICES" | wc -l)
NUM_SERVICES(svcs) == Len(svcs)

\* the image reference of service s
IMAGE_NAME(svcs, s, tag) ==
  IF NUM_SERVICES(svcs) = 1
    THEN DOCKERHUB_REPO \o <<":">> \o tag
    ELSE DOCKERHUB_REPO \o <<"-">> \o S_SAFE(s) \o <<":">> \o tag

\* the entries written to the override file: one image per service
OverrideEntries(svcs, tag) ==
  [i \in 1..Len(svcs) |-> [service |-> svcs[i], image |-> IMAGE_NAME(svcs, svcs[i], tag)]]

\* cat > "${OVERRIDE_FILE}" and the cat >> of every service
CreateOverride ==
  /\ ppc = "override"
  /\ OVERRIDE_FILE' = File(OverrideEntries(penv.SERVICES, TAG))
  /\ ppc' = "build"
  /\ UNCHANGED <<pexit, penv, TAG, plog, PUSHED_IMAGES, todoPush, WF, dvars, ovars>>

\* docker compose -f docker-compose.yml -f "${OVERRIDE_FILE}" build --pull --no-cache
Build ==
  /\ ppc = "build"
  /\ \/ /\ plog' = Append(plog, [op |-> "build", ref |-> <<>>])
        /\ ppc' = "login"
        /\ UNCHANGED pexit
     \/ /\ plog' = Append(plog, [op |-> "build-failed", ref |-> <<>>])
        /\ PAbort
  /\ UNCHANGED <<penv, TAG, OVERRIDE_FILE, PUSHED_IMAGES, todoPush, WF, dvars, ovars>>

\* echo "${DOCKERHUB_TOKEN}" | docker login ...; PUSHED_IMAGES=()
Login ==
  /\ ppc = "login"
  /\ \/ /\ plog' = Append(plog, [op |-> "login", ref |-> <<>>])
        /\ ppc' = "push"
        /\ todoPush' = penv.SERVICES
        /\ UNCHANGED pexit
     \/ /\ plog' = Append(plog, [op |-> "login-failed", ref |-> <<>>])
        /\ PAbort
        /\ UNCHANGED todoPush
  /\ UNCHANGED <<penv, TAG, OVERRIDE_FILE, PUSHED_IMAGES, WF, dvars, ovars>>

\* a push stage that names the image by the raw service name
pushed_Raw(svcs, s, tag) ==
  IF Len(svcs) = 1
    THEN DOCKERHUB_REPO \o <<":">> \o tag
    ELSE DOCKERHUB_REPO \o <<"-">> \o s \o <<":">> \o tag

\* pushed="${DOCKERHUB_REPO}[-${S_SAFE}]:${TAG}", recomputed by the push stage
pushed(svcs, s, tag) ==
  IF NUM_SERVICES(svcs) = 1
    THEN DOCKERHUB_REPO \o <<":">> \o tag
    ELSE DOCKERHUB_REPO \o <<"-">> \o S_SAFE(s) \o <<":">> \o tag

\* a push stage that carries on after a failed push
AfterPush_Continue(st, rest) ==
  IF rest = <<>> THEN "patch" ELSE "push"

\* position of the script after `docker push` of one image returned st
AfterPush(st, rest) ==
  IF st # 0 THEN "done" ELSE IF rest = <<>> THEN "patch" ELSE "push"

\* one docker push "${pushed}" of the push stage
Push ==
  /\ ppc = "push"
  /\ todoPush # <<>>
  /\ LET ref == pushed(penv.SERVICES, Head(todoPush), TAG)
     IN  \E st \in {0} \cup FailCodes :
           /\ plog' = Append(plog, [op |-> IF st = 0 THEN "push" ELSE "push-failed",
                                    ref |-> ref])
           /\ PUSHED_IMAGES' = IF st = 0 THEN Append(PUSHED_IMAGES, ref)
                                         ELSE PUSHED_IMAGES
           /\ todoPush' = Tail(todoPush)
           /\ ppc' = AfterPush(st, Tail(todoPush))
           /\ pexit' = IF st = 0 THEN pexit ELSE st
  /\ UNCHANGED <<penv, TAG, OVERRIDE_FILE, WF, dvars, ovars>>

\* grep -q "__IMAGE_TAG__" "${WF}"
HasPlaceholder(f) == \E i \in 1..Len(f) : f[i] = Placeholder

\* a substitution without the g flag: only the first occurrence is replaced
SedReplace_First(f, tag) ==
  [i \in 1..Len(f) |->
     IF f[i] = Placeholder /\ (\A j \in 1..(i - 1) : f[j] # Placeholder)
       THEN tag ELSE f[i]]

\* sed -i "s/__IMAGE_TAG__/${TAG}/g" "${WF}"
SedReplace(f, tag) == [i \in 1..Len(f) |-> IF f[i] = Placeholder THEN tag ELSE f[i]]

\* err "Workflow file ${WF} not found. Skipping workflow update."
WorkflowNotFound == [op |-> "err-workflow-not-found", ref |-> <<>>]

\* a patch step that gives up the run when the workflow file is missing
PatchWorkflow_Fatal ==
  /\ ppc = "patch"
  /\ IF penv.argMode = "workflow-file" /\ ~WF.exists
       THEN /\ plog' = Append(plog, WorkflowNotFound)
            /\ PExit(1)
            /\ UNCHANGED WF
       ELSE IF penv.argMode = "workflow-file" /\ HasPlaceholder(WF.content)
       THEN /\ \/ WF' = File(SedReplace(WF.content, TAG)) /\ ppc' = "cleanup"
                  /\ UNCHANGED pexit
               \/ PAbort /\ UNCHANGED WF
            /\ UNCHANGED plog
       ELSE ppc' = "cleanup" /\ UNCHANGED <<WF, pexit, plog>>
  /\ UNCHANGED <<penv, TAG, OVERRIDE_FILE, PUSHED_IMAGES, todoPush, dvars, ovars>>

\* optionally update the workflow file
PatchWorkflow ==
  /\ ppc = "patch"
  /\ IF penv.argMode = "workflow-file" /\ ~WF.exists
       THEN /\ plog' = Append(plog, WorkflowNotFound)      \* [[ ! -f "${WF}" ]]
            /\ ppc' = "cleanup"
            /\ UNCHANGED <<WF, pexit>>
       ELSE IF penv.argMode = "workflow-file" /\ HasPlaceholder(WF.content)
       THEN /\ \/ WF' = File(SedReplace(WF.content, TAG)) /\ ppc' = "cleanup"
                  /\ UNCHANGED pexit
               \/ PAbort /\ UNCHANGED WF      \* sed fails
            /\ UNCHANGED plog
       ELSE ppc' = "cleanup" /\ UNCHANGED <<WF, pexit, plog>>
  /\ UNCHANGED <<penv, TAG, OVERRIDE_FILE, PUSHED_IMAGES, todoPush, dvars, ovars>>

\* rm -f "${OVERRIDE_FILE}", then the script ends
Cleanup ==
  /\ ppc = "cleanup"
  /\ OVERRIDE_FILE' = Missing
  /\ PExit(0)
  /\ UNCHANGED <<penv, TAG, plog, PUSHED_IMAGES, todoPush, WF, dvars, ovars>>

PNext ==
  \/ ParseArgs \/ ValidateEnv \/ ComputeTag \/ ListServices \/ CreateOverride
  \/ Build \/ Login \/ Push \/ PatchWorkflow \/ Cleanup

(***************************************************************************)
(* Specifications: one rollout on a host; one run of the publisher         *)
(***************************************************************************)
PIdle ==
  /\ ppc = "idle"
  /\ pexit = Running
  /\ penv = [argMode |-> "none", repo |-> FALSE, user |-> FALSE, token |-> FALSE,
             GITHUB_SHA |-> <<>>, git |-> "none", composeOk |-> FALSE,
             SERVICES |-> <<>>]
  /\ TAG = <<>>
  /\ OVERRIDE_FILE = Missing
  /\ plog = <<>>
  /\ PUSHED_IMAGES = <<>>
  /\ todoPush = <<>>
  /\ WF = Missing

DIdle ==
  /\ variant = "basic"
  /\ args = <<>>
  /\ IMAGE = Unset
  /\ pc = "idle"
  /\ exitcode = Running
  /\ containers = [c \in Names |-> Gone]
  /\ override = NoFile
  /\ todo = {}
  /\ cur = "none"
  /\ n = 0
  /\ status_code = Unset
  /\ out = <<>>
  /\ gets = 0
  /\ sleeps = 0
  /\ okAt = 0
  /\ hist = NoHist

\* what a deploy.sh process keeps to itself: its variables and position; the
\* override manifest and the host's containers are shared by all processes
Process ==
  [variant |-> variant, args |-> args, IMAGE |-> IMAGE, pc |-> pc,
   exitcode |-> exitcode, todo |-> todo, cur |-> cur, n |-> n,
   status_code |-> status_code, out |-> out, gets |-> gets, sleeps |-> sleeps,
   okAt |-> okAt, hist |-> hist]

\* a deploy.sh process before its first step
Fresh(v, a, h) ==
  [variant |-> v, args |-> a, IMAGE |-> Unset, pc |-> "validate",
   exitcode |-> Running, todo |-> {}, cur |-> "none", n |-> 0,
   status_code |-> Unset, out |-> <<>>, gets |-> 0, sleeps |-> 0,
   okAt |-> 0, hist |-> h]

\* no second process
NoProcess == [Fresh("basic", <<>>, NoHist) EXCEPT !.pc = "idle"]

OIdle == other = NoProcess /\ overlap = FALSE

Init == DInit /\ PIdle /\ OIdle
Next == DNext
Spec == Init /\ [][Next]_vars

PubInit == PInit /\ DIdle /\ OIdle
PubNext == PNext
PubSpec == PubInit /\ [][PubNext]_vars

(***************************************************************************)
(* Two rollouts against the same target directory                          *)
(***************************************************************************)
\* the image reference given to the second rollout
NextImage == "repo:next"

\* a scheduler under which a descheduled process never counts as running
Overlaps_Never(p) == FALSE

\* the process at position p has begun and has not terminated: nothing in the
\* script (no lock file, no flock) keeps another process from running meanwhile
Overlaps(p) == p \notin {"validate", "done"}

\* what is left of a process that has terminated: its exit status (and, for
\* reference, the image it was given); its variables are gone
Exited(p) ==
  [Fresh(p.variant, p.args, NoHist) EXCEPT
     !.pc = "done", !.IMAGE = p.IMAGE, !.exitcode = p.exitcode]

\* the positions whose next step reads or writes what the processes share (the
\* override manifest, the containers); every other step touches the process's
\* own variables only and commutes with the steps of the other process
SharedSteps ==
  {"pin", "list_port", "port_loop", "port_rm", "list_anc", "anc_loop", "anc_rm",
   "down", "up"}

\* the host schedules the other deploy.sh process; the file docker-compose.override.yml
\* and the containers are what the two processes share. Switches are taken before
\* the first step, before a step on shared state, and after the last step.
Switch ==
  /\ other.pc \notin {"idle", "done"}
  /\ pc \in {"validate", "done"} \cup SharedSteps
  /\ other' = IF pc = "done" THEN Exited(Process) ELSE Process
  /\ overlap' = (overlap \/ Overlaps(pc))
  /\ variant' = other.variant
  /\ args' = other.args
  /\ IMAGE' = other.IMAGE
  /\ pc' = other.pc
  /\ exitcode' = other.exitcode
  /\ todo' = other.todo
  /\ cur' = other.cur
  /\ n' = other.n
  /\ status_code' = other.status_code
  /\ out' = other.out
  /\ gets' = other.gets
  /\ sleeps' = other.sleeps
  /\ okAt' = other.okAt
  /\ hist' = other.hist
  /\ UNCHANGED <<override, containers, pvars>>

\* both processes run the same revision of the script, each with its own image
ConcInit ==
  /\ DInit
  /\ PIdle
  /\ variant \in {"basic", "strict"}
  /\ args = <<NewImage>>
  /\ containers["ext"] = Gone
  /\ other = Fresh(variant, <<NextImage>>, hist)
  /\ overlap = FALSE

ConcNext == DNext \/ Switch
ConcSpec == ConcInit /\ [][ConcNext]_vars

(***************************************************************************)
(* Properties of the Rollout Executor and the Health Verifier              *)
(***************************************************************************)
InOut(e) == \E i \in 1..Len(out) : out[i] = e
Terminated == pc = "done"
\* the run observed a 200 on a GET issued after the Start step, within the budget
ObservedHealthy ==
  /\ status_code = "200"
  /\ okAt \in 1..HEALTH_RETRIES
  /\ hist.okAfterStart
  /\ hist.started > 0

\* C1 (as stated): a run exits 0 only after a 200 observed after Start within the
\* retry budget, and a run with a missing image argument or a failed health
\* verification exits with status 1.
C1_ExitOneOnFailure ==
  /\ exitcode = 0 => ObservedHealthy
  /\ (Terminated /\ (InOut("usage") \/ InOut("health-check-failed"))) => exitcode = 1

\* C1 (amended): a run exits 0 only after a 200 observed after Start within the
\* retry budget; a run with a missing image argument exits 1; a run whose health
\* verification fails exits non-zero, with status 1 when the diagnostic dump
\* completed and with the failing diagnostic command's status otherwise.
C1_ExitZeroOnlyWhenHealthy ==
  /\ exitcode = 0 => ObservedHealthy
  /\ (Terminated /\ InOut("usage")) => exitcode = 1
  /\ (Terminated /\ InOut("health-check-failed")) =>
        /\ exitcode \notin {0, Running}
        /\ InOut("logs-tail-200") => exitcode = 1

C1_Witness ==
  /\ Terminated /\ exitcode = 0 /\ okAt = 3 /\ n = 2
  /\ hist.pruned = "ok"

\* C2: when the first 200 comes on the k-th GET (1 <= k <= R), exactly k GETs are
\* issued, no GET and no sleep follows the 200, and the rollout is classified as
\* successful (it goes on to the cleanup, never to the failure branch).
C2_EarlyExit ==
  okAt > 0 =>
    /\ okAt <= HEALTH_RETRIES
    /\ gets = okAt
    /\ sleeps = okAt - 1
    /\ n = okAt - 1
    /\ pc \in {"verify", "prune", "done"}
    /\ ~InOut("health-check-failed")
    /\ Terminated => hist.pruned # "no"

C2_Witness ==
  /\ Terminated /\ okAt = 2 /\ gets = 2 /\ sleeps = 1 /\ exitcode = 0

\* C3: when no GET returns 200, exactly R GETs are issued, then the failure is
\* reported and the rollout exits non-zero.
C3_Exhaustion ==
  okAt = 0 =>
    /\ gets = n
    /\ gets <= HEALTH_RETRIES
    /\ pc \in {"verify", "diag_ps", "diag_logs"} => gets = HEALTH_RETRIES
    /\ pc \in {"diag_ps", "diag_logs"} => InOut("health-check-failed")
    /\ (Terminated /\ gets > 0) =>
          /\ gets = HEALTH_RETRIES
          /\ InOut("health-check-failed")
          /\ exitcode \notin {0, Running}

C3_Witness ==
  /\ Terminated /\ okAt = 0 /\ gets = HEALTH_RETRIES /\ exitcode = 1
  /\ InOut("logs-tail-200")

HostUntouchedByRun ==
  /\ hist.pulls = 0 /\ hist.pins = 0 /\ hist.stopped = {} /\ hist.rmOk = {}
  /\ hist.rmFailed = {} /\ hist.downs = 0 /\ hist.started = 0 /\ gets = 0

\* C4: invoked without an image argument, the executor prints the usage message
\* and exits 1 as its first and only step; no pull is attempted, the override
\* manifest is not written and no container is stopped, removed or started.
C4_MissingImage ==
  /\ [](Len(args) = 0 =>
          /\ pc \in {"validate", "done"}
          /\ Terminated => (out = <<"usage">> /\ exitcode = 1)
          /\ HostUntouchedByRun)
  /\ [][Len(args) = 0 => (containers' = containers /\ override' = override)]_vars

C4_Witness ==
  /\ Len(args) = 0 /\ Terminated /\ exitcode = 1 /\ out = <<"usage">>
  /\ Present("app") /\ override = OldImage

\* the strict variant re-ran with a new image over a running prior version, and exited 0
StrictRerunCompleted ==
  /\ variant = "strict" /\ IMAGE = NewImage /\ hist.hadPrior
  /\ Terminated /\ exitcode = 0

\* the containers of the service that are running
RunningServiceContainers ==
  { c \in Names : containers[c].kind = "svc" /\ containers[c].state = "running" }

OneServiceContainerOnNewImage ==
  /\ Cardinality(RunningServiceContainers) = 1
  /\ \A c \in RunningServiceContainers : containers[c].img = NewImage /\ ~containers[c].prior

C6_ZeroDowntime ==
  hist.hadPrior => \E c \in Names : Serving(c)

\* C7: once the health verification has succeeded, the rollout exits 0 whether
\* the dangling-image prune succeeds or fails.
C7_PruneNeverAffectsOutcome ==
  (Terminated /\ hist.pruned # "no") => exitcode = 0

(***************************************************************************)
(* Properties of the Image Publisher                                       *)
(***************************************************************************)
PTerminated == ppc = "done"
Ops == [i \in 1..Len(plog) |-> plog[i].op]
IsPush(i) == Ops[i] \in {"push", "push-failed"}
PushIndexes == { i \in 1..Len(plog) : IsPush(i) }

\* C8: once the Publisher has terminated, the transient override manifest it
\* created does not exist, whether the run succeeded or the build, the login, or
\* a push failed.
C8_OverrideAlwaysRemoved ==
  PTerminated => ~OVERRIDE_FILE.exists

\* C9: the Publisher logs in exactly once, after the build and before any push;
\* the pushes follow the manifest order, one image per service; the first failed
\* push ends the run with a non-zero status and nothing is pushed after it.
C9_LoginOnceThenPushInOrder ==
  /\ Cardinality({ i \in 1..Len(plog) : Ops[i] \in {"login", "login-failed"} }) <= 1
  /\ \A i \in 1..Len(plog) :
       /\ Ops[i] \in {"login", "login-failed"} => (i = 2 /\ Ops[1] = "build")
       /\ IsPush(i) => (i >= 3 /\ Ops[2] = "login")
       /\ IsPush(i) => /\ i - 2 <= Len(penv.SERVICES)
                       /\ plog[i].ref = IMAGE_NAME(penv.SERVICES, penv.SERVICES[i - 2], TAG)
       /\ Ops[i] = "push-failed" =>
            /\ i = Len(plog)
            /\ PTerminated
            /\ pexit \notin {0, Running}
  /\ PUSHED_IMAGES = [k \in 1..Cardinality({ i \in PushIndexes : Ops[i] = "push" })
                        |-> plog[k + 2].ref]
  /\ (PTerminated /\ pexit = 0 /\ Len(plog) > 0) =>
        Len(PUSHED_IMAGES) = Len(penv.SERVICES)

C9_Witness ==
  /\ PTerminated
  /\ Len(penv.SERVICES) = 2
  /\ Len(plog) = 3
  /\ Ops = <<"build", "login", "push-failed">>
  /\ PUSHED_IMAGES = <<>>

\* the first k characters of s
Prefix(s, k) == [i \in 1..(IF Len(s) < k THEN Len(s) ELSE k) |-> s[i]]

\* the tag the resolution order calls for
TagByPriority(e) ==
  IF e.GITHUB_SHA # <<>> THEN Prefix(e.GITHUB_SHA, 7)
  ELSE IF e.git = "ok" THEN LocalShort
  ELSE Timestamp

\* C10: whatever sources are available, once the tag step is over the tag is the
\* external commit id cut to 7 characters if supplied, else the local short
\* commit id if it can be resolved, else the timestamp; it is one of the three,
\* it is not empty, and the Publisher goes on with it.
C10_TagResolution ==
  (penv.argMode \in {"none", "workflow-file"} /\ ~(~penv.repo \/ ~penv.user \/ ~penv.token)
     /\ ppc \notin {"args", "env", "tag"}) =>
    /\ TAG = TagByPriority(penv)
    /\ TAG # <<>>

\* the characters a sanitized service suffix may contain: [a-z0-9-]
SuffixChars == { Lower[i] : i \in 1..26 } \cup Digits \cup {"-"}

\* the part of a multi-service reference between "repo-" and ":tag"
SuffixOf(ref, tag) ==
  SubSeq(ref, Len(DOCKERHUB_REPO) + 2, Len(ref) - Len(tag) - 1)

\* ref is repo-<suffix>:tag for a suffix over [a-z0-9-]
WellFormedMultiRef(ref, tag) ==
  /\ Len(ref) >= Len(DOCKERHUB_REPO) + Len(tag) + 2
  /\ ref = DOCKERHUB_REPO \o <<"-">> \o SuffixOf(ref, tag) \o <<":">> \o tag
  /\ \A i \in 1..Len(SuffixOf(ref, tag)) : SuffixOf(ref, tag)[i] \in SuffixChars

\* C11: with one service the reference is repo:tag, without a suffix; with more
\* than one every reference is repo-<suffix>:tag with a suffix over [a-z0-9-];
\* and the reference pushed for a service is the one assigned to it for the build.
C11_ImageNaming ==
  /\ OVERRIDE_FILE.exists =>
       /\ Len(OVERRIDE_FILE.content) = Len(penv.SERVICES)
       /\ \A i \in 1..Len(OVERRIDE_FILE.content) :
            /\ OVERRIDE_FILE.content[i].service = penv.SERVICES[i]
            /\ IF Len(penv.SERVICES) = 1
                 THEN OVERRIDE_FILE.content[i].image = DOCKERHUB_REPO \o <<":">> \o TAG
                 ELSE WellFormedMultiRef(OVERRIDE_FILE.content[i].image, TAG)
  /\ ppc = "push" => OVERRIDE_FILE.exists
  /\ OVERRIDE_FILE.exists =>
       \A i \in 1..Len(plog) :
         plog[i].op \in {"push", "push-failed"} =>
           /\ i - 2 \in 1..Len(OVERRIDE_FILE.content)
           /\ plog[i].ref = OVERRIDE_FILE.content[i - 2].image

C11_Witness ==
  /\ ppc = "patch"
  /\ penv.SERVICES = << <<"A","p","i">>, <<"d","b","_","1">> >>
  /\ Len(PUSHED_IMAGES) = 2
  /\ PUSHED_IMAGES[1] = DOCKERHUB_REPO \o <<"-","a","p","i","-",":">> \o TAG
  /\ OVERRIDE_FILE.exists

\* C12: within one run over a multi-service manifest, two distinct service names
\* never get the same image reference.
C12_ReferencesDistinct ==
  OVERRIDE_FILE.exists =>
    \A i, j \in 1..Len(OVERRIDE_FILE.content) :
      OVERRIDE_FILE.content[i].service # OVERRIDE_FILE.content[j].service
        => OVERRIDE_FILE.content[i].image # OVERRIDE_FILE.content[j].image

\* g is f with every occurrence of the placeholder replaced by tag, and nothing else changed
EveryOccurrenceReplaced(f, g, tag) ==
  /\ Len(g) = Len(f)
  /\ \A i \in 1..Len(f) :
       /\ f[i] = Placeholder => g[i] = tag
       /\ f[i] # Placeholder => g[i] = f[i]

ContainsToken(f) == \E i \in 1..Len(f) : f[i] = Placeholder

\* C13: when the patch step runs on a workflow file that contains the placeholder,
\* the file it leaves has every occurrence replaced by the resolved tag and is
\* otherwise unchanged; a file without the placeholder is left exactly as it was,
\* and no other step of the Publisher writes the file.
C13_WorkflowPatch ==
  [][ /\ (ppc = "patch" /\ ppc' = "cleanup" /\ WF.exists /\ ContainsToken(WF.content)) =>
          /\ WF'.exists
          /\ EveryOccurrenceReplaced(WF.content, WF'.content, TAG)
          /\ ~ContainsToken(WF'.content)
      /\ (ppc = "patch" /\ ~ContainsToken(WF.content)) => WF' = WF
      /\ ppc # "patch" => WF' = WF
    ]_vars

C13_Witness ==
  /\ ppc = "done" /\ pexit = 0
  /\ penv.GITHUB_SHA = <<"a","b","c">>
  /\ WF = File(<< <<"t",":">>, <<"a","b","c">>, <<"x">>, <<"a","b","c">> >>)

\* the command line asks for a publishing run
PublishingRun == penv.argMode \in {"none", "workflow-file"}
\* the build manifest was read and declares no service
NoServiceDeclared == penv.composeOk /\ penv.SERVICES = <<>>
MissingConfig == ~penv.repo \/ ~penv.user \/ ~penv.token

\* C14: when the repository coordinate or a credential is absent, or the manifest
\* declares no service, the Publisher exits 1 and has neither created the
\* override manifest nor run a build, a registry login or a push.
C14_NoSideEffectOnInvalidInput ==
  (PublishingRun /\ (MissingConfig \/ NoServiceDeclared)) =>
    /\ ~OVERRIDE_FILE.exists
    /\ plog = <<>>
    /\ PUSHED_IMAGES = <<>>
    /\ ppc \in {"args", "env", "tag", "services", "done"}
    /\ ppc = "done" => pexit = 1

(***************************************************************************)
(* Properties of the Rollout Executor: failure policy of its steps         *)
(***************************************************************************)
NoStepAfterPull ==
  /\ hist.pins = 0 /\ hist.portMatched = {} /\ hist.ancMatched = {}
  /\ hist.stopped = {} /\ hist.rmOk = {} /\ hist.rmFailed = {}
  /\ hist.downs = 0 /\ hist.ups = 0 /\ hist.started = 0
  /\ gets = 0 /\ sleeps = 0

\* C15: when docker pull fails the rollout ends at once with a non-zero status
\* after that single pull attempt, and no later step runs: the override manifest
\* is not written, no container is stopped, removed or started, no GET is issued.
C15_PullFatal ==
  /\ [](hist.pulls <= 1)
  /\ [](hist.pull = "failed" =>
          /\ Terminated
          /\ exitcode \notin {0, Running}
          /\ hist.pulls = 1
          /\ NoStepAfterPull)
  /\ [][hist'.pull = "failed" => (override' = override /\ containers' = containers)]_vars

C15_Witness ==
  /\ hist.pull = "failed" /\ Terminated /\ exitcode = 125
  /\ IMAGE = NewImage /\ override = OldImage /\ Serving("app")

SupersedeSteps ==
  {"list_port", "port_loop", "port_rm", "list_anc", "anc_loop", "anc_rm", "down"}

\* C16: in the strict variant no outcome of the supersession (a failed listing, no
\* match, any failed stop or remove, a failed compose down) ends the rollout: the
\* passes always run on to the Start step, which is executed.
C16_SupersessionBestEffort ==
  /\ []((variant = "strict" /\ pc \in SupersedeSteps) => exitcode = Running)
  /\ [][(variant = "strict" /\ pc \in SupersedeSteps) => pc' \in SupersedeSteps \cup {"up"}]_vars
  /\ []((variant = "strict" /\ Terminated /\ hist.pins = 1) =>
          (hist.ups = 1 /\ hist.downs = 1))

C16_Witness ==
  /\ variant = "strict" /\ Terminated /\ exitcode = 0
  /\ hist.portMatched = {"app", "ext"}
  /\ hist.rmFailed = {"app", "ext"} /\ hist.rmOk = {} /\ hist.stopped = {}
  /\ hist.ups = 1 /\ hist.started = 1

\* C17: the port pass stops and removes a container only if it is bound to the
\* service's host port 8080, the ancestry pass only if its image ancestry matches
\* the repository; a container that is neither is never touched by the two passes.
C17_OnlyDeclaredTargets ==
  [][ /\ (pc = "port_loop" /\ pc' = "port_rm") => containers[cur'].hp
      /\ (pc = "anc_loop" /\ pc' = "anc_rm") => containers[cur'].anc
    ]_vars

HealthFailed == InOut("health-check-failed")

\* the host is in the new state: the override pins the rollout's image and the
\* service container started by the rollout runs that image
HostInNewState ==
  /\ override = IMAGE
  /\ containers["app"].state = "running"
  /\ containers["app"].img = IMAGE

FullDump == <<"health-check-failed", "status-table", "logs-tail-200">>

\* C18 (as stated): after the budget is exhausted the rollout prints the status
\* table, then the last 200 log lines, then exits non-zero, and the host stays in
\* the new state.
C18_DumpThenExit ==
  (Terminated /\ HealthFailed) =>
    /\ out = FullDump
    /\ exitcode \notin {0, Running}
    /\ HostInNewState

\* C18 (amended): after the budget is exhausted the rollout runs the status table
\* and then the log dump, in that order, and exits non-zero; a diagnostic command
\* that fails ends the run at once with its own status, so the dump can stop
\* short. In every case the host stays in the new state: nothing is stopped,
\* removed, restarted or re-pinned after the failure.
C18_NoRollback ==
  /\ [](HealthFailed =>
          /\ HostInNewState
          /\ \E k \in 1..3 : out = SubSeq(FullDump, 1, k)
          /\ Terminated =>
               /\ exitcode \notin {0, Running}
               /\ out = FullDump => exitcode = 1)
  /\ [][HealthFailed => (containers' = containers /\ override' = override)]_vars

C18_Witness ==
  /\ Terminated /\ out = FullDump /\ exitcode = 1
  /\ hist.hadPrior /\ IMAGE = NewImage /\ override = NewImage
  /\ containers["app"].img = NewImage /\ ~containers["app"].prior

\* C19: a GET that fails in transport leaves the status "000", which is not a
\* success, counts as exactly one attempt as any non-200 response does, and does
\* not end the rollout: the loop sleeps and goes on until the budget is used up.
C19_TransportFailure ==
  /\ [][(pc = "curl" /\ pc' # "curl") =>
          /\ gets' = gets + 1
          /\ hist'.lastResp # "200" => (n' = n + 1 /\ pc' = "sleep")
          /\ hist'.lastResp = "transport-failure" =>
               /\ status_code' = "000"
               /\ okAt' = okAt
               /\ exitcode' = Running]_vars
  /\ [][(pc = "until" /\ pc' = "verify") => n = HEALTH_RETRIES]_vars
  /\ [](pc \in {"until", "curl", "sleep"} => exitcode = Running)

(***************************************************************************)
(* Sanitization of service names                                           *)
(***************************************************************************)
\* s lowercased, with every maximal run of non-alphanumeric characters replaced
\* by one "-"
RECURSIVE CollapseRuns(_, _)
CollapseRuns(s, inRun) ==
  IF s = <<>> THEN <<>>
  ELSE IF IsAlnum(Head(s)) THEN <<ToLower(Head(s))>> \o CollapseRuns(Tail(s), FALSE)
  ELSE IF inRun THEN CollapseRuns(Tail(s), TRUE)
  ELSE <<"-">> \o CollapseRuns(Tail(s), TRUE)

\* C20: for every service of a multi-service manifest the suffix of its image
\* reference is the name lowercased with every maximal non-alphanumeric run
\* replaced by a single "-", and nothing added.
C20_SanitizedSuffix ==
  (OVERRIDE_FILE.exists /\ Len(penv.SERVICES) > 1) =>
    \A i \in 1..Len(OVERRIDE_FILE.content) :
      SuffixOf(OVERRIDE_FILE.content[i].image, TAG)
        = CollapseRuns(OVERRIDE_FILE.content[i].service, FALSE)

WorkflowFileMissing == penv.argMode = "workflow-file" /\ ~WF.exists
ErrReported == \E i \in 1..Len(plog) : plog[i] = WorkflowNotFound

\* C21: when a workflow file path is given and no file is there, the patch step
\* reports the error and is skipped: the run goes on to the cleanup, the pushed
\* images stay pushed, the override manifest is removed, no file is created at
\* the path, and the Publisher exits 0.
C21_MissingWorkflowFile ==
  /\ [][(ppc = "patch" /\ WorkflowFileMissing) =>
          /\ ErrReported'
          /\ ppc' = "cleanup" /\ pexit' = Running
          /\ WF' = WF /\ OVERRIDE_FILE' = OVERRIDE_FILE
          /\ PUSHED_IMAGES' = PUSHED_IMAGES]_vars
  /\ []((WorkflowFileMissing /\ ppc = "cleanup") => ErrReported)
  /\ [](ErrReported =>
          /\ WorkflowFileMissing
          /\ ppc \in {"cleanup", "done"}
          /\ Len(PUSHED_IMAGES) = Len(penv.SERVICES)
          /\ \A i \in PushIndexes : Ops[i] = "push"
          /\ PTerminated => (pexit = 0 /\ ~OVERRIDE_FILE.exists))

C21_Witness ==
  /\ PTerminated /\ pexit = 0
  /\ ErrReported /\ WorkflowFileMissing
  /\ Len(PUSHED_IMAGES) = 2
  /\ ~OVERRIDE_FILE.exists

(***************************************************************************)
(* Properties of two rollouts against one target                           *)
(***************************************************************************)
\* the override manifest pins the image of the running rollout and the service
\* container runs it
OwnImageLive ==
  /\ override = IMAGE
  /\ containers["app"].state = "running"
  /\ containers["app"].img = IMAGE

\* the same, for the image of the other rollout
OtherImageLive ==
  /\ override = other.IMAGE
  /\ containers["app"].state = "running"
  /\ containers["app"].img = other.IMAGE

\* C22: the script has no mutual exclusion: a rollout's next step is never held
\* back by another rollout being under way. When the rollouts against a target
\* do not overlap, a rollout that exits 0 leaves the override pinning its own
\* image and the service running it. (When they interleave, a rollout can exit
\* 0 with the override and the service on the other rollout's image: that state,
\* C22_Witness, is reachable.)
C22_SerializedRolloutsOwnTheTarget ==
  /\ pc # "done" => ENABLED DNext
  /\ (Terminated /\ exitcode = 0 /\ ~overlap) => OwnImageLive

C22_Witness ==
  /\ overlap
  /\ Terminated /\ exitcode = 0 /\ ObservedHealthy
  /\ IMAGE = NewImage /\ other.IMAGE = NextImage
  /\ hist.pins = 1 /\ hist.started = 1
  /\ OtherImageLive /\ ~OwnImageLive

====
